---- MODULE Spec2Model ----
(***************************************************************************)
(* A model of the search endpoint of src/app.py: query normalization,      *)
(* the Jackett endpoint fallback loop, enrich_results (magnet resolution  *)
(* and tracker augmentation), the post-fetch category filter and the       *)
(* response cache in front of search_torrents.                             *)
(*                                                                         *)
(* Python str values are TLA+ strings; a raw query is a sequence of code   *)
(* points, an ASCII code point being the one-character string and any      *)
(* other code point its name ("U+00E9").                                   *)
(***************************************************************************)
EXTENDS Integers, Sequences, FiniteSets, TLC

(***************************************************************************)
(* Bounds of the model.                                                    *)
(***************************************************************************)
MaxQueryLen == 3

MaxEnrichLen == 1

MaxResults == 2

MaxRequests == 2

MaxTime == 300

TickSeconds == 150

MaxThreads == 2

MaxDownloads == 3

MaxClock == 45

ClockStep == 15

(***************************************************************************)
(* Strings.                                                                *)
(***************************************************************************)
CharAt(s, i) == SubSeq(s, i, i)

CharsOf(s) == {CharAt(s, i) : i \in 1..Len(s)}

StartsWith(s, p) == Len(s) >= Len(p) /\ SubSeq(s, 1, Len(p)) = p

EndsWith(s, p) == Len(s) >= Len(p) /\ SubSeq(s, Len(s) - Len(p) + 1, Len(s)) = p

Contains(s, p) == \E i \in 1..(Len(s) - Len(p) + 1) : SubSeq(s, i, i + Len(p) - 1) = p

Lower == "abcdefghijklmnopqrstuvwxyz"

Upper == "ABCDEFGHIJKLMNOPQRSTUVWXYZ"

DigitChars == "0123456789"

\* re's \w on ASCII text: letters, digits and the underscore.
WordChars == CharsOf(Lower) \cup CharsOf(Upper) \cup CharsOf(DigitChars) \cup {"_"}

\* re's \s and str.strip() on ASCII text.
SpaceChars == {" ", "\t", "\n", "\r"}

\* The class [._\-] of step 2.
SeparatorChars == {".", "_", "-"}

(***************************************************************************)
(* Query normalization, search_torrents steps 1-4.                         *)
(***************************************************************************)
\* unicodedata.normalize('NFKD', c) of one code point.
NFKD(c) ==
    CASE c = "U+00E9" -> <<"e", "U+0301">>
      [] c = "U+2026" -> <<".", ".", ".">>
      [] c = "U+00A0" -> <<" ">>
      [] OTHER -> <<c>>

\* .encode('ascii', 'ignore').decode('ascii'): code points outside ASCII are dropped.
RECURSIVE AsciiIgnore(_)
AsciiIgnore(cps) ==
    IF cps = <<>> THEN ""
    ELSE (IF Len(Head(cps)) = 1 THEN Head(cps) ELSE "") \o AsciiIgnore(Tail(cps))

RECURSIVE Decompose(_)
Decompose(cps) == IF cps = <<>> THEN <<>> ELSE NFKD(Head(cps)) \o Decompose(Tail(cps))

\* Step 1.
ToAscii(cps) == AsciiIgnore(Decompose(cps))

\* The index after the run of characters of class cls that starts at i.
RECURSIVE RunEnd(_, _, _)
RunEnd(s, i, cls) ==
    IF i <= Len(s) /\ CharAt(s, i) \in cls THEN RunEnd(s, i + 1, cls) ELSE i

\* re.sub(cls+, ' ', s)
RECURSIVE SubRuns(_, _, _)
SubRuns(s, i, cls) ==
    IF i > Len(s) THEN ""
    ELSE IF CharAt(s, i) \in cls THEN " " \o SubRuns(s, RunEnd(s, i, cls), cls)
    ELSE CharAt(s, i) \o SubRuns(s, i + 1, cls)

\* Step 2: re.sub(r'[._\-]+', ' ', query)
ReplaceSeparators(s) == SubRuns(s, 1, SeparatorChars)

\* Step 3: re.sub(r'[^\w\s:]', '', query)
RECURSIVE RemoveSpecial(_)
RemoveSpecial(s) ==
    IF s = "" THEN ""
    ELSE (IF Head(s) \in WordChars \cup SpaceChars \cup {":"} THEN Head(s) ELSE "")
         \o RemoveSpecial(Tail(s))

RECURSIVE LStrip(_)
LStrip(s) == IF s # "" /\ Head(s) \in SpaceChars THEN LStrip(Tail(s)) ELSE s

RECURSIVE RStrip(_)
RStrip(s) ==
    IF s # "" /\ CharAt(s, Len(s)) \in SpaceChars THEN RStrip(SubSeq(s, 1, Len(s) - 1)) ELSE s

\* Step 4: re.sub(r'\s+', ' ', query).strip()
CollapseSpaces(s) == RStrip(LStrip(SubRuns(s, 1, SpaceChars)))

\* A plausible slip: whitespace collapsed before the special characters go.
NormalizeCollapseFirst(cps) == RemoveSpecial(CollapseSpaces(ReplaceSeparators(ToAscii(cps))))

Normalize(cps) == CollapseSpaces(RemoveSpecial(ReplaceSeparators(ToAscii(cps))))

\* A str as the code points it is made of.
CodePoints(s) == [i \in 1..Len(s) |-> CharAt(s, i)]

(***************************************************************************)
(* Numbers and their decimal text: Python's str(int) and int(str).         *)
(***************************************************************************)
DigitOf(c) == CHOOSE d \in 0..9 : CharAt(DigitChars, d + 1) = c

IsDigits(s) == s # "" /\ \A i \in 1..Len(s) : CharAt(s, i) \in CharsOf(DigitChars)

RECURSIVE ParseDigits(_)
ParseDigits(s) ==
    IF s = "" THEN 0
    ELSE 10 * ParseDigits(SubSeq(s, 1, Len(s) - 1)) + DigitOf(CharAt(s, Len(s)))

RECURSIVE NatToStr(_)
NatToStr(n) ==
    IF n < 10 THEN CharAt(DigitChars, n + 1)
    ELSE NatToStr(n \div 10) \o CharAt(DigitChars, (n % 10) + 1)

\* str(n)
IntToStr(n) == IF n < 0 THEN "-" \o NatToStr(0 - n) ELSE NatToStr(n)

\* The digits of an int literal: surrounding whitespace and one sign set aside.
IntBody(s) ==
    LET t == RStrip(LStrip(s))
    IN  IF t # "" /\ Head(t) \in {"+", "-"} THEN Tail(t) ELSE t

\* Whether int(s) returns; it raises ValueError otherwise.
IntOk(s) == IsDigits(IntBody(s))

\* int(s)
ParseInt(s) ==
    LET t == RStrip(LStrip(s))
    IN  IF t # "" /\ Head(t) = "-" THEN 0 - ParseDigits(IntBody(s)) ELSE ParseDigits(IntBody(s))

(***************************************************************************)
(* urllib.parse.quote with its default safe='/'.                           *)
(***************************************************************************)
\* The printable ASCII characters in code order, chr(32) to chr(95).
PrintableLow ==
    " !\"#$%&'()*+,-./0123456789:;<=>?@ABCDEFGHIJKLMNOPQRSTUVWXYZ[\\]^_"

\* chr(97) to chr(126).
PrintableHigh == "abcdefghijklmnopqrstuvwxyz{|}~"

IndexIn(s, c) == CHOOSE i \in 1..Len(s) : CharAt(s, i) = c

\* ord(c)
Ord(c) ==
    IF c \in CharsOf(PrintableLow) THEN IndexIn(PrintableLow, c) + 31
    ELSE IndexIn(PrintableHigh, c) + 96

HexDigits == "0123456789ABCDEF"

PercentEncode(c) ==
    "%" \o CharAt(HexDigits, (Ord(c) \div 16) + 1) \o CharAt(HexDigits, (Ord(c) % 16) + 1)

\* Never quoted: letters, digits, "_.-~", and the safe "/".
QuoteSafe == CharsOf(Lower) \cup CharsOf(Upper) \cup CharsOf(DigitChars) \cup {"_", ".", "-", "~", "/"}

RECURSIVE Quote(_)
Quote(s) ==
    IF s = "" THEN ""
    ELSE (IF Head(s) \in QuoteSafe THEN Head(s) ELSE PercentEncode(Head(s))) \o Quote(Tail(s))

(***************************************************************************)
(* JSON values of a raw result. A field is [t, s]: t its JSON type         *)
(* ("absent" when the key is missing) and s its text.                      *)
(***************************************************************************)
Absent == [t |-> "absent", s |-> ""]

Null == [t |-> "null", s |-> ""]

Str(s) == [t |-> "str", s |-> s]

Num(s) == [t |-> "num", s |-> s]

\* bool(x)
Truthy(v) == (v.t = "str" /\ v.s # "") \/ (v.t = "num" /\ v.s # "0")

\* str(x)
PyStr(v) == IF v.t \in {"str", "num"} THEN v.s ELSE "None"

\* A Category field: an int, a str, a list of values, or something else.
CatAbsent == [t |-> "absent", s |-> "", l |-> <<>>]

CatInt(s) == [t |-> "int", s |-> s, l |-> <<>>]

CatStr(s) == [t |-> "str", s |-> s, l |-> <<>>]

CatList(l) == [t |-> "list", s |-> "", l |-> l]

CatOther == [t |-> "other", s |-> "", l |-> <<>>]

\* An entry of Results that is not a JSON object.
NonRecord ==
    [kind |-> "other", Id |-> Absent, Indexer |-> Absent, Tracker |-> Absent, Title |-> Absent,
     MagnetUri |-> Absent, Link |-> Absent, InfoHash |-> Absent, Category |-> CatAbsent]

Record(title, magnet, link, hash, cat) ==
    [kind |-> "dict", Id |-> Absent, Indexer |-> Absent, Tracker |-> Str("1337x"), Title |-> title,
     MagnetUri |-> magnet, Link |-> link, InfoHash |-> hash, Category |-> cat]

(***************************************************************************)
(* enrich_results.                                                         *)
(***************************************************************************)
PUBLIC_TRACKERS ==
    << "udp://tracker.opentrackr.org:1337/announce",
       "udp://open.tracker.cl:1337/announce",
       "udp://9.rarbg.com:2810/announce",
       "udp://tracker.openbittorrent.com:80/announce",
       "udp://opentracker.i2p.rocks:6969/announce",
       "udp://tracker.internetwarriors.net:1337/announce",
       "udp://tracker.leechers-paradise.org:6969/announce" >>

\* "&".join(parts)
RECURSIVE Join(_, _)
Join(parts, sep) ==
    IF parts = <<>> THEN ""
    ELSE IF Len(parts) = 1 THEN Head(parts)
    ELSE Head(parts) \o sep \o Join(Tail(parts), sep)

tracker_query == Join([i \in 1..Len(PUBLIC_TRACKERS) |-> "tr=" \o Quote(PUBLIC_TRACKERS[i])], "&")

IsMagnet(v) == Truthy(v) /\ StartsWith(PyStr(v), "magnet:")

\* quote() of a value that is not a str raises TypeError.
TitleRaises(res) == res.Title.t \notin {"absent", "str"}

\* Whether the loop body raises on this entry: only branch 3 calls quote().
EntryRaises(res) ==
    /\ res.kind = "dict"
    /\ ~IsMagnet(res.MagnetUri)
    /\ ~IsMagnet(res.Link)
    /\ Truthy(res.InfoHash)
    /\ TitleRaises(res)

\* A plausible slip: the info-hash branch tested before the Link branch.
final_magnet_hash_first(res) ==
    IF IsMagnet(res.MagnetUri) THEN res.MagnetUri
    ELSE IF Truthy(res.InfoHash)
         THEN Str("magnet:?xt=urn:btih:" \o PyStr(res.InfoHash) \o "&dn="
                  \o Quote(IF res.Title.t = "absent" THEN "download" ELSE res.Title.s))
    ELSE IF IsMagnet(res.Link) THEN res.Link
    ELSE Null

\* Lines 204-219: the magnet before tracker augmentation, None when there is none.
final_magnet(res) ==
    IF IsMagnet(res.MagnetUri) THEN res.MagnetUri
    ELSE IF IsMagnet(res.Link) THEN res.Link
    ELSE IF Truthy(res.InfoHash)
         THEN Str("magnet:?xt=urn:btih:" \o PyStr(res.InfoHash) \o "&dn="
                  \o Quote(IF res.Title.t = "absent" THEN "download" ELSE res.Title.s))
    ELSE Null

\* A plausible slip: the trackers appended whether or not the magnet has some.
add_trackers_always(m) ==
    IF Truthy(m)
    THEN Str(m.s \o (IF Contains(m.s, "?") THEN "&" ELSE "?") \o tracker_query)
    ELSE Null

\* Lines 221-229: the value stored in res['MagnetUri'].
add_trackers(m) ==
    IF Truthy(m)
    THEN IF ~Contains(m.s, "tr=")
         THEN Str(m.s \o (IF Contains(m.s, "?") THEN "&" ELSE "?") \o tracker_query)
         ELSE m
    ELSE Null

\* The loop body for the entry at 0-based index idx.
EnrichEntry(res, idx) ==
    IF res.kind # "dict" THEN res
    ELSE [res EXCEPT
            !.Id = IF res.Id.t = "absent" THEN Num(IntToStr(idx + 1)) ELSE res.Id,
            !.Indexer = IF res.Indexer.t # "absent" THEN res.Indexer
                        ELSE IF res.Tracker.t # "absent" THEN res.Tracker ELSE Str("Unknown"),
            !.MagnetUri = add_trackers(final_magnet(res))]

\* A response body: a JSON object with a Results list, or a JSON array.
ObjectBody(results) == [t |-> "object", Results |-> results]

ArrayBody == [t |-> "array", Results |-> <<>>]

\* enrich_results(data): the enriched data, or the exception it raises.
enrich_results(data) ==
    IF data.t # "object"
    THEN [ok |-> FALSE, err |-> "'list' object has no attribute 'get'", data |-> data]
    ELSE IF \E i \in 1..Len(data.Results) : EntryRaises(data.Results[i])
    THEN [ok |-> FALSE, err |-> "quote_from_bytes() expected bytes", data |-> data]
    ELSE [ok |-> TRUE, err |-> "",
          data |-> [data EXCEPT !.Results =
                      [i \in 1..Len(data.Results) |-> EnrichEntry(data.Results[i], i - 1)]]]

(***************************************************************************)
(* The post-fetch category filter of search_torrents, lines 296-343.       *)
(***************************************************************************)
\* Whether building cat_list raises for this entry: r.get on something that is
\* not a dict, or int() of a str that is no number.
FilterRaises(r) ==
    \/ r.kind # "dict"
    \/ r.Category.t = "str" /\ ~IntOk(r.Category.s)

RECURSIVE DigitElements(_)
DigitElements(l) ==
    IF l = <<>> THEN <<>>
    ELSE (IF IsDigits(PyStr(Head(l))) THEN <<ParseInt(PyStr(Head(l)))>> ELSE <<>>)
         \o DigitElements(Tail(l))

\* cat_list, for an entry the loop does not skip.
cat_list(r) ==
    IF r.Category.t \in {"int", "str"} THEN <<ParseInt(r.Category.s)>>
    ELSE IF r.Category.t = "list" THEN DigitElements(r.Category.l)
    ELSE <<>>

target_prefix(target_cat) ==
    LET t == IntToStr(target_cat) IN SubSeq(t, 1, IF Len(t) < 2 THEN Len(t) ELSE 2)

\* Lines 306-335: whether the entry is appended to filtered_results.
match(r, target_cat) ==
    /\ r.Category.t # "other"
    /\ \E i \in 1..Len(cat_list(r)) :
          \/ cat_list(r)[i] = target_cat
          \/ /\ EndsWith(IntToStr(target_cat), "00")
             /\ StartsWith(IntToStr(cat_list(r)[i]), target_prefix(target_cat))

RECURSIVE filtered_results(_, _)
filtered_results(results, target_cat) ==
    IF results = <<>> THEN <<>>
    ELSE (IF match(Head(results), target_cat) THEN <<Head(results)>> ELSE <<>>)
         \o filtered_results(Tail(results), target_cat)

\* The results after the filter; an exception inside it leaves them as they were.
filter_results(results, category) ==
    IF category = "" \/ category = "all" THEN results
    ELSE IF ~IntOk(category) THEN results
    ELSE IF \E i \in 1..Len(results) : FilterRaises(results[i]) THEN results
    ELSE filtered_results(results, ParseInt(category))

(***************************************************************************)
(* Requests, configuration and the backend's answers.                      *)
(***************************************************************************)
\* A query-string argument: missing, or its text.
NoArg == [has |-> FALSE, s |-> <<>>]

QArg(text) == [has |-> TRUE, s |-> CodePoints(text)]

NoCat == [has |-> FALSE, s |-> ""]

CatArg(text) == [has |-> TRUE, s |-> text]

Request(q, c) == [q |-> q, category |-> c]

\* request.args.get('category', '')
CategoryOf(r) == IF r.category.has THEN r.category.s ELSE ""

Config(url, key) == [JACKETT_URL |-> url, JACKETT_API_KEY |-> key]

Configured(c) == c.JACKETT_URL # "" /\ c.JACKETT_API_KEY # ""

Configs == {Config("https://jk.example/", "k3y"), Config("", "k3y"), Config("https://jk.example/", "")}

RECURSIVE RStripSlash(_)
RStripSlash(s) ==
    IF s # "" /\ CharAt(s, Len(s)) = "/" THEN RStripSlash(SubSeq(s, 1, Len(s) - 1)) ELSE s

base_urls(c) == <<RStripSlash(c.JACKETT_URL), "http://jackett:9117">>

paths == <<"/api/v2.0/indexers/all/results", "/jackett/api/v2.0/indexers/all/results">>

\* A plausible slip: the loops nested the other way round, paths outside.
EndpointsPathsOutside(c) ==
    << base_urls(c)[1] \o paths[1], base_urls(c)[2] \o paths[1],
       base_urls(c)[1] \o paths[2], base_urls(c)[2] \o paths[2] >>

\* The URLs in the order the two loops try them.
Endpoints(c) ==
    << base_urls(c)[1] \o paths[1], base_urls(c)[1] \o paths[2],
       base_urls(c)[2] \o paths[1], base_urls(c)[2] \o paths[2] >>

\* What one requests.get can end in.
Raised(msg) == [kind |-> "exception", text |-> msg, body |-> ArrayBody]

Status(code) == [kind |-> "status", text |-> IntToStr(code), body |-> ArrayBody]

NotJson(msg) == [kind |-> "notjson", text |-> msg, body |-> ArrayBody]

Json(b) == [kind |-> "json", text |-> "", body |-> b]

Failures ==
    { Raised("Connection refused"), Status(404),
      NotJson("Expecting value: line 1 column 1 (char 0)") }

NoData == ObjectBody(<<>>)

Reply(status, data) == [status |-> status, error |-> "", data |-> data]

ErrorReply(status, msg) == [status |-> status, error |-> msg, data |-> NoData]

NoReply == ErrorReply(0, "")

(***************************************************************************)
(* State.                                                                  *)
(***************************************************************************)
VARIABLES
    nRaw,       \* normalizer runs: the text given
    nOut,       \* normalizer runs: the text after each run
    eIn,        \* enrich_results runs: the data given
    eOut,       \* enrich_results runs: what each run returned or raised
    cfg,        \* JACKETT_URL and JACKETT_API_KEY
    req,        \* the request being served: its q and category arguments
    pc,         \* where the request is: idle, cache, call, loop, done
    query,      \* search_torrents' query after normalization
    attempts,   \* the requests.get calls made for this request, in order
    last_error, \* search_torrents' last_error, "" for None
    served,     \* the response body the reply was built from
    response,   \* what search_torrents returned: status, error, data
    cache,      \* the entries of the response cache: key, value, time stored
    now,        \* the clock, in seconds
    log,        \* the requests answered so far
    pikpak_client,    \* whether the PikPak login has succeeded
    rate_limit_store, \* rate_limit's dict: IP -> time of the last admitted request
    clock,            \* what time.time() returns, in seconds
    threads,          \* each worker thread's request: position, ip, now, reply
    received,         \* the number of download requests received so far
    admitted,         \* the requests rate_limit passed to add_download, in order
    rejected          \* the requests rate_limit answered with 429

nvars == <<nRaw, nOut>>

evars == <<eIn, eOut>>

hvars == <<cfg, req, pc, query, attempts, last_error, served, response>>

cvars == <<cache, now, log>>

dvars == <<pikpak_client, rate_limit_store, clock, threads, received, admitted, rejected>>

vars == <<nRaw, nOut, eIn, eOut, cfg, req, pc, query, attempts, last_error, served, response,
          cache, now, log,
          pikpak_client, rate_limit_store, clock, threads, received, admitted, rejected>>

NormIdle == nRaw = <<>> /\ nOut = <<>>

EnrichIdle == eIn = ArrayBody /\ eOut = <<>>

CacheIdle == cache = {} /\ now = 0 /\ log = <<>>

\* A worker thread that is serving no request.
IdleThread == [pc |-> "idle", ip |-> "", now |-> 0, status |-> 0]

DownloadIdle ==
    /\ pikpak_client = FALSE
    /\ rate_limit_store = [i \in {} |-> 0]
    /\ clock = 0
    /\ threads = [t \in {} |-> IdleThread]
    /\ received = 0
    /\ admitted = <<>>
    /\ rejected = {}

SearchIdle ==
    /\ cfg = Config("", "")
    /\ req = Request(NoArg, NoCat)
    /\ pc = "off"
    /\ query = ""
    /\ attempts = <<>>
    /\ last_error = ""
    /\ served = NoData
    /\ response = NoReply
    /\ CacheIdle

\* All sequences over S of length lo..hi.
SeqsOf(S, lo, hi) == UNION {[1..n -> S] : n \in lo..hi}

(***************************************************************************)
(* The normalizer applied to a text, and to its own output.                *)
(***************************************************************************)
QueryAlphabet == {"a", "1", ".", "_", "-", " ", "\t", ":", "!", "U+00E9", "U+4E2D", "U+2026"}

RawQueries == SeqsOf(QueryAlphabet, 0, MaxQueryLen)

NormInit == nRaw \in RawQueries /\ nOut = <<>> /\ EnrichIdle /\ SearchIdle /\ DownloadIdle

NormalizeOnce ==
    /\ Len(nOut) = 0
    /\ nOut' = <<Normalize(nRaw)>>
    /\ UNCHANGED <<nRaw, evars, dvars, hvars, cvars>>

NormalizeAgain ==
    /\ Len(nOut) = 1
    /\ nOut' = Append(nOut, Normalize(CodePoints(nOut[1])))
    /\ UNCHANGED <<nRaw, evars, dvars, hvars, cvars>>

NormNext == NormalizeOnce \/ NormalizeAgain

SpecNormalize == NormInit /\ [][NormNext]_vars

(***************************************************************************)
(* enrich_results applied to a response body, and to its own output.       *)
(***************************************************************************)
MagnetSamples ==
    { Absent,
      Str("http://x.example/a.torrent"),
      Str("magnet:AA"),
      Str("magnet:?xt=urn:btih:AA"),
      Str("magnet:?xt=urn:btih:AA&tr=udp%3A//t.example%3A80"),
      Str("magnet:?xt=urn:btih:AA&tr=udp%3A//t.example%3A80&tr=udp%3A//t.example%3A80"),
      Str("magnet:?xt=urn:btih:AA&dn=str=1") }

LinkSamples == {Absent, Str("http://x.example/dl/1"), Str("magnet:?xt=urn:btih:BB")}

HashSamples == {Absent, Str("abc123")}

TitleSamples == {Absent, Str("Foo"), Str("The Matrix: 1999"), Num("123")}

EnrichEntries ==
    {NonRecord} \cup
    {Record(t, m, l, h, CatAbsent) :
        t \in TitleSamples, m \in MagnetSamples, l \in LinkSamples, h \in HashSamples}

EnrichBodies == {ArrayBody} \cup {ObjectBody(r) : r \in SeqsOf(EnrichEntries, 0, MaxEnrichLen)}

EnrichInit == eIn \in EnrichBodies /\ eOut = <<>> /\ NormIdle /\ SearchIdle /\ DownloadIdle

EnrichOnce ==
    /\ Len(eOut) = 0
    /\ eOut' = <<enrich_results(eIn)>>
    /\ UNCHANGED <<eIn, nvars, hvars, cvars, dvars>>

EnrichAgain ==
    /\ Len(eOut) = 1
    /\ eOut[1].ok
    /\ eOut' = Append(eOut, enrich_results(eOut[1].data))
    /\ UNCHANGED <<eIn, nvars, hvars, cvars, dvars>>

EnrichNext == EnrichOnce \/ EnrichAgain

SpecEnrich == EnrichInit /\ [][EnrichNext]_vars

(***************************************************************************)
(* search_torrents.                                                        *)
(***************************************************************************)
\* Lines 236-261: the query check, the normalization and the configuration check.
Validate ==
    /\ pc = "call"
    /\ IF ~req.q.has \/ req.q.s = <<>>
       THEN /\ response' = ErrorReply(400, "No query provided")
            /\ pc' = "done"
            /\ UNCHANGED query
       ELSE /\ query' = Normalize(req.q.s)
            /\ IF ~Configured(cfg)
               THEN response' = ErrorReply(500, "Jackett not configured") /\ pc' = "done"
               ELSE pc' = "loop" /\ UNCHANGED response
    /\ UNCHANGED <<cfg, req, attempts, last_error, served, nvars, evars, dvars, cvars>>

\* The message the except clauses record for a requests.get that ended in o, r
\* being what enrich_results made of its body.
recorded_error(o, r) ==
    CASE o.kind = "exception" -> o.text
      [] o.kind = "status" -> "Jackett error " \o o.text
      [] o.kind = "notjson" -> "Invalid response from Indexer: " \o o.text
      [] OTHER -> r.err

\* Lines 272-355: one pass of the loops over base_urls and paths, the
\* requests.get ending in o.
TryEndpoint(o) ==
    /\ pc = "loop"
    /\ Len(attempts) < Len(Endpoints(cfg))
    /\ LET category == CategoryOf(req)
           r == enrich_results(o.body)
           answered == o.kind = "json" /\ r.ok
       IN  /\ attempts' = Append(attempts,
                 [url |-> Endpoints(cfg)[Len(attempts) + 1],
                  Query |-> query,
                  Category |-> IF category \in {"", "all", "undefined"} THEN "" ELSE category,
                  kind |-> o.kind,
                  ok |-> answered,
                  err |-> IF answered THEN "" ELSE recorded_error(o, r)])
           /\ IF answered
              THEN /\ response' =
                        Reply(200, [r.data EXCEPT !.Results = filter_results(r.data.Results, category)])
                   /\ served' = o.body
                   /\ pc' = "done"
                   /\ UNCHANGED last_error
              ELSE /\ last_error' = recorded_error(o, r)
                   /\ UNCHANGED <<response, served, pc>>
    /\ UNCHANGED <<cfg, req, query, nvars, evars, dvars, cvars>>

\* Line 363: every endpoint has been tried and none gave a reply.
Exhausted ==
    /\ pc = "loop"
    /\ Len(attempts) = Len(Endpoints(cfg))
    /\ response' = ErrorReply(502, IF last_error # "" THEN last_error
                                   ELSE "Could not reach Jackett. Check indexers and API key.")
    /\ pc' = "done"
    /\ UNCHANGED <<cfg, req, query, attempts, last_error, served, nvars, evars, dvars, cvars>>

(***************************************************************************)
(* One search request, from the call of search_torrents to its reply.      *)
(***************************************************************************)
SearchQueries ==
    {NoArg, QArg(""), QArg("..."), QArg("The.Matrix")}

SearchCategories == {NoCat, CatArg("all"), CatArg("2000"), CatArg("2040"), CatArg("2045")}

SearchRequests ==
    {Request(q, NoCat) : q \in SearchQueries}
        \cup {Request(QArg("The.Matrix"), c) : c \in SearchCategories}

TrackedMagnet == Str("magnet:?xt=urn:btih:ABC123&tr=udp%3A//t.example%3A80")

MatrixEntry ==
    Record(Str("The.Matrix.1999.1080p"), TrackedMagnet, Absent, Str("ABC123"), CatList(<<Num("2045")>>))

SearchEntries ==
    { MatrixEntry,
      Record(Str("the matrix 1999"), Absent, Str("magnet:?xt=urn:btih:abc123"), Str("abc123"),
             CatInt("2040")),
      Record(Str("Foo"), Absent, Absent, Absent, CatList(<<Str("5000"), Null>>)),
      NonRecord,
      Record(Num("123"), Absent, Absent, Str("abc123"), CatList(<<Num("2045")>>)),
      Record(Str("Bar"), Absent, Absent, Absent, CatStr("Movies")) }

SearchBodies == {ArrayBody} \cup {ObjectBody(r) : r \in SeqsOf(SearchEntries, 0, MaxResults)}

SearchOutcomes == Failures \cup {Json(b) : b \in SearchBodies}

SearchInit ==
    /\ cfg \in Configs
    /\ req \in SearchRequests
    /\ pc = "call"
    /\ query = ""
    /\ attempts = <<>>
    /\ last_error = ""
    /\ served = NoData
    /\ response = NoReply
    /\ CacheIdle
    /\ DownloadIdle
    /\ NormIdle
    /\ EnrichIdle

SearchNext == Validate \/ (\E o \in SearchOutcomes : TryEndpoint(o)) \/ Exhausted

SpecSearch == SearchInit /\ [][SearchNext]_vars

(***************************************************************************)
(* The response cache in front of search_torrents:                         *)
(* @cache.cached(timeout=300, query_string=True).                          *)
(***************************************************************************)
CACHE_TIMEOUT == 300

\* query_string=True: the key is made of the request's arguments as sent.
cache_key(r) == r

Fresh(e) == now - e.at < CACHE_TIMEOUT

CacheQueries == {NoArg, QArg("The.Matrix"), QArg("The Matrix")}

CacheCategories == {NoCat, CatArg(""), CatArg("all"), CatArg("2000")}

CacheRequests == {Request(q, c) : q \in CacheQueries, c \in CacheCategories}

CacheOutcomes ==
    {Raised("Connection refused"), Json(ObjectBody(<<>>)), Json(ObjectBody(<<MatrixEntry>>))}

\* A request arrives.
Arrive(r) ==
    /\ pc = "idle"
    /\ Len(log) < MaxRequests
    /\ req' = r
    /\ pc' = "cache"
    /\ UNCHANGED <<cfg, query, attempts, last_error, served, response, nvars, evars, dvars, cvars>>

\* The decorator finds a fresh entry under the request's key and returns it.
CacheHit ==
    /\ pc = "cache"
    /\ \E e \in cache :
          /\ e.key = cache_key(req)
          /\ Fresh(e)
          /\ log' = Append(log, [req |-> req, at |-> now, response |-> e.value, contacted |-> 0])
    /\ pc' = "idle"
    /\ UNCHANGED <<cfg, req, query, attempts, last_error, served, response, cache, now,
                   nvars, evars, dvars>>

\* The decorator finds none and calls search_torrents.
CacheMiss ==
    /\ pc = "cache"
    /\ ~\E e \in cache : e.key = cache_key(req) /\ Fresh(e)
    /\ pc' = "call"
    /\ UNCHANGED <<cfg, req, query, attempts, last_error, served, response, nvars, evars, dvars, cvars>>

\* The decorator stores what search_torrents returned and returns it.
Store ==
    /\ pc = "done"
    /\ cache' = {e \in cache : e.key # cache_key(req)}
                    \cup {[key |-> cache_key(req), value |-> response, at |-> now]}
    /\ log' = Append(log, [req |-> req, at |-> now, response |-> response,
                           contacted |-> Len(attempts)])
    /\ pc' = "idle"
    /\ query' = ""
    /\ attempts' = <<>>
    /\ last_error' = ""
    /\ served' = NoData
    /\ response' = NoReply
    /\ UNCHANGED <<cfg, req, now, nvars, evars, dvars>>

\* Time passes between requests.
Tick ==
    /\ pc = "idle"
    /\ now + TickSeconds <= MaxTime
    /\ now' = now + TickSeconds
    /\ UNCHANGED <<cache, log, hvars, nvars, evars, dvars>>

Init ==
    /\ cfg \in Configs
    /\ req = Request(NoArg, NoCat)
    /\ pc = "idle"
    /\ query = ""
    /\ attempts = <<>>
    /\ last_error = ""
    /\ served = NoData
    /\ response = NoReply
    /\ CacheIdle
    /\ DownloadIdle
    /\ NormIdle
    /\ EnrichIdle

Next ==
    \/ \E r \in CacheRequests : Arrive(r)
    \/ CacheHit
    \/ CacheMiss
    \/ Validate
    \/ \E o \in CacheOutcomes : TryEndpoint(o)
    \/ Exhausted
    \/ Store
    \/ Tick

Spec == Init /\ [][Next]_vars

(***************************************************************************)
(* POST /api/download: require_auth, rate_limit and add_download, each     *)
(* request served by a worker thread of the server.  Threads share         *)
(* rate_limit_store and take no lock, so another thread may run between    *)
(* any two statements of rate_limit.                                       *)
(***************************************************************************)
ADD_COOLDOWN == 30

Workers == 1..MaxThreads

ClientIPs == {"10.0.0.1", "10.0.0.2"}

\* rate_limit_store[ip] = t
StoreSet(store, ip, t) == [i \in DOMAIN store \cup {ip} |-> IF i = ip THEN t ELSE store[i]]

\* A request arrives and require_auth runs: with no client it logs in again,
\* and answers 503 when that fails too.
Receive(t, ip, login) ==
    /\ threads[t].pc = "idle"
    /\ received < MaxDownloads
    /\ received' = received + 1
    /\ IF pikpak_client \/ login
          THEN /\ pikpak_client' = TRUE
               /\ threads' = [threads EXCEPT ![t] =
                                 [pc |-> "rate_limit", ip |-> ip, now |-> 0, status |-> 0]]
          ELSE /\ pikpak_client' = FALSE
               /\ threads' = [threads EXCEPT ![t] = [IdleThread EXCEPT !.status = 503]]
    /\ UNCHANGED <<rate_limit_store, clock, admitted, rejected, nvars, evars, hvars, cvars>>

\* ip = request.remote_addr; now = time.time()
ReadTime(t) ==
    /\ threads[t].pc = "rate_limit"
    /\ threads' = [threads EXCEPT ![t].now = clock, ![t].pc = "check"]
    /\ UNCHANGED <<pikpak_client, rate_limit_store, clock, received, admitted, rejected,
                   nvars, evars, hvars, cvars>>

\* The test of the stored time: 429 within the cooldown, else on to the store.
CheckStore(t) ==
    LET ip == threads[t].ip
        tnow == threads[t].now
    IN  /\ threads[t].pc = "check"
        /\ IF ip \in DOMAIN rate_limit_store /\ tnow - rate_limit_store[ip] < ADD_COOLDOWN
              THEN /\ rate_limit_store' = rate_limit_store
                   /\ rejected' = rejected \cup
                          {[ip |-> ip, now |-> tnow,
                            remaining |-> ADD_COOLDOWN - (tnow - rate_limit_store[ip]),
                            before |-> rate_limit_store[ip],
                            after |-> rate_limit_store'[ip]]}
                   /\ threads' = [threads EXCEPT ![t] = [IdleThread EXCEPT !.status = 429]]
              ELSE /\ threads' = [threads EXCEPT ![t].pc = "store"]
                   /\ UNCHANGED <<rate_limit_store, rejected>>
        /\ UNCHANGED <<pikpak_client, clock, received, admitted, nvars, evars, hvars, cvars>>

\* rate_limit_store[ip] = now; return f(*args, **kwargs)
StoreTime(t) ==
    /\ threads[t].pc = "store"
    /\ rate_limit_store' = StoreSet(rate_limit_store, threads[t].ip, threads[t].now)
    /\ admitted' = Append(admitted, [ip |-> threads[t].ip, now |-> threads[t].now])
    /\ threads' = [threads EXCEPT ![t].pc = "add_download"]
    /\ UNCHANGED <<pikpak_client, clock, received, rejected, nvars, evars, hvars, cvars>>

\* The body of add_download: the task is created, or offline_download raises.
add_download(t, created) ==
    /\ threads[t].pc = "add_download"
    /\ threads' = [threads EXCEPT ![t] =
                      [IdleThread EXCEPT !.status = IF created THEN 200 ELSE 500]]
    /\ UNCHANGED <<pikpak_client, rate_limit_store, clock, received, admitted, rejected,
                   nvars, evars, hvars, cvars>>

\* Time passes.
Advance ==
    /\ clock + ClockStep <= MaxClock
    /\ clock' = clock + ClockStep
    /\ UNCHANGED <<pikpak_client, rate_limit_store, threads, received, admitted, rejected,
                   nvars, evars, hvars, cvars>>

DownloadInit ==
    /\ pikpak_client \in BOOLEAN
    /\ rate_limit_store = [i \in {} |-> 0]
    /\ clock = 0
    /\ threads = [t \in Workers |-> IdleThread]
    /\ received = 0
    /\ admitted = <<>>
    /\ rejected = {}
    /\ SearchIdle
    /\ NormIdle
    /\ EnrichIdle

DownloadNext ==
    \/ \E t \in Workers, ip \in ClientIPs, login \in BOOLEAN : Receive(t, ip, login)
    \/ \E t \in Workers : ReadTime(t)
    \/ \E t \in Workers : CheckStore(t)
    \/ \E t \in Workers : StoreTime(t)
    \/ \E t \in Workers, created \in BOOLEAN : add_download(t, created)
    \/ Advance

SpecDownload == DownloadInit /\ [][DownloadNext]_vars

(***************************************************************************)
(* The vocabulary of the claims about magnets.                             *)
(***************************************************************************)
\* The index of the first c in s at or after i, Len(s) + 1 when there is none.
RECURSIVE FindFrom(_, _, _)
FindFrom(s, c, i) == IF i > Len(s) \/ CharAt(s, i) = c THEN i ELSE FindFrom(s, c, i + 1)

\* s.split(c)
RECURSIVE Split(_, _)
Split(s, c) ==
    LET k == FindFrom(s, c, 1)
    IN  IF k > Len(s) THEN <<s>>
        ELSE <<SubSeq(s, 1, k - 1)>> \o Split(SubSeq(s, k + 1, Len(s)), c)

\* The parameters of a URI: what follows its first "?", cut at every "&".
UriParams(uri) ==
    LET k == FindFrom(uri, "?", 1)
    IN  IF k > Len(uri) THEN <<>> ELSE Split(SubSeq(uri, k + 1, Len(uri)), "&")

IsTrackerParam(p) == StartsWith(p, "tr=")

\* The announce trackers a magnet URI carries, as written in it.
TrackersOf(uri) ==
    LET ps == SelectSeq(UriParams(uri), IsTrackerParam)
    IN  [i \in 1..Len(ps) |-> SubSeq(ps[i], Len("tr=") + 1, Len(ps[i]))]

NoDuplicates(seq) == \A i, j \in 1..Len(seq) : seq[i] = seq[j] => i = j

EncodedPublicTrackers == [i \in 1..Len(PUBLIC_TRACKERS) |-> Quote(PUBLIC_TRACKERS[i])]

\* A value that is a magnet URI.
IsMagnetUri(v) == v.t = "str" /\ StartsWith(v.s, "magnet:")

\* out is the magnet base, alone or followed by appended parameters only.
UsesMagnet(out, base) ==
    /\ out.t = "str"
    /\ StartsWith(out.s, base)
    /\ (out.s = base \/ CharAt(out.s, Len(base) + 1) \in {"&", "?"})

\* The entries enrich_results ran its loop body on, once it returned.
EnrichedEntries == IF Len(eOut) >= 1 /\ eOut[1].ok THEN 1..Len(eIn.Results) ELSE {}

EnrichedDicts == {i \in EnrichedEntries : eIn.Results[i].kind = "dict"}

RawEntry(i) == eIn.Results[i]

MagnetOut(i) == eOut[1].data.Results[i].MagnetUri

C8_AsStated ==
    /\ \A i \in EnrichedDicts :
          LET m == final_magnet(RawEntry(i))
          IN  Truthy(m) =>
                /\ TrackersOf(m.s) # <<>> => MagnetOut(i) = m
                /\ TrackersOf(m.s) = <<>> =>
                      /\ StartsWith(MagnetOut(i).s, m.s)
                      /\ TrackersOf(MagnetOut(i).s) = EncodedPublicTrackers
                /\ TrackersOf(MagnetOut(i).s) # <<>>
                /\ NoDuplicates(TrackersOf(MagnetOut(i).s))
    /\ Len(eOut) = 2 => eOut[2] = eOut[1]

(***************************************************************************)
(* C8 as amended: a resolved magnet that contains the text tr= is left     *)
(* unchanged; any other gets every public tracker appended, URL-encoded,   *)
(* exactly once, and then has at least one tracker parameter and no        *)
(* tracker twice; a second run of enrich_results changes nothing.          *)
(***************************************************************************)
C8_TrackerAugmentation ==
    /\ \A i \in EnrichedDicts :
          LET m == final_magnet(RawEntry(i))
          IN  Truthy(m) =>
                /\ Contains(m.s, "tr=") => MagnetOut(i) = m
                /\ ~Contains(m.s, "tr=") =>
                      /\ StartsWith(MagnetOut(i).s, m.s)
                      /\ TrackersOf(MagnetOut(i).s) = EncodedPublicTrackers
                      /\ TrackersOf(MagnetOut(i).s) # <<>>
                      /\ NoDuplicates(TrackersOf(MagnetOut(i).s))
    /\ Len(eOut) = 2 => eOut[2] = eOut[1]

\* A magnet with no tracker got the public list, and a second run was made.
C8_Witness ==
    /\ Len(eOut) = 2
    /\ \E i \in EnrichedDicts :
          /\ RawEntry(i).MagnetUri = Str("magnet:?xt=urn:btih:AA")
          /\ Len(TrackersOf(MagnetOut(i).s)) = Len(PUBLIC_TRACKERS)

(***************************************************************************)
(* The vocabulary of the claims about a search.                            *)
(***************************************************************************)
Answered == pc = "done" /\ response.status = 200

Results == response.data.Results

\* The entries of the body the reply was built from, as enrich_results left them.
EnrichedServed == enrich_results(served).data.Results

RECURSIVE ToLower(_)
ToLower(s) ==
    IF s = "" THEN ""
    ELSE (IF Head(s) \in CharsOf(Upper) THEN CharAt(Lower, IndexIn(Upper, Head(s))) ELSE Head(s))
         \o ToLower(Tail(s))

\* An entry's info-hash, "" when it has none.
HashOf(e) == IF e.kind = "dict" /\ e.InfoHash.t = "str" THEN ToLower(e.InfoHash.s) ELSE ""

(***************************************************************************)
(* C1 as stated: the Results of a successful search hold no two items      *)
(* whose info-hash is non-empty and equal ignoring case, and no item       *)
(* without an info-hash is removed as a duplicate.                         *)
(***************************************************************************)
C1_NoDuplicateHashes ==
    Answered =>
        /\ \A i, j \in 1..Len(Results) :
              i # j /\ HashOf(Results[i]) # "" => HashOf(Results[i]) # HashOf(Results[j])
        /\ CategoryOf(req) = "" =>
              SelectSeq(Results, LAMBDA e : HashOf(e) = "")
                  = SelectSeq(EnrichedServed, LAMBDA e : HashOf(e) = "")

(***************************************************************************)
(* C2 as stated: with a numeric category R requested and a successful      *)
(* answer, an item of the backend's list is in Results if and only if one  *)
(* of its category IDs equals R, or R ends in 00 and one of its IDs shares *)
(* R's first two digits, for every list the backend can return; kept items *)
(* stay in their order.                                                    *)
(***************************************************************************)
CategoryIds(e) == IF e.kind = "dict" /\ e.Category.t \in {"int", "list"} THEN cat_list(e) ELSE <<>>

FirstTwo(n) == SubSeq(IntToStr(n), 1, 2)

InCategory(e, R) ==
    \E i \in 1..Len(CategoryIds(e)) :
        \/ CategoryIds(e)[i] = R
        \/ EndsWith(IntToStr(R), "00") /\ FirstTwo(CategoryIds(e)[i]) = FirstTwo(R)

C2_CategoryFilter ==
    Answered /\ IsDigits(CategoryOf(req)) =>
        Results = SelectSeq(EnrichedServed, LAMBDA e : InCategory(e, ParseInt(CategoryOf(req))))

(***************************************************************************)
(* C3 as stated: a request whose query text is non-empty but normalizes to *)
(* the empty string is rejected with status 400 and no backend endpoint is *)
(* contacted for it.                                                       *)
(***************************************************************************)
C3_EmptyAfterNormalization ==
    Configured(cfg) /\ req.q.has /\ req.q.s # <<>> /\ Normalize(req.q.s) = "" =>
        /\ attempts = <<>>
        /\ pc = "done" => response.status = 400

(***************************************************************************)
(* C4 as stated: a wrong-shaped entry (not a record, a Title that is no    *)
(* string where only an info-hash is available, a Category that is not     *)
(* numeric) never aborts the batch: no endpoint's answer is lost to it,    *)
(* and the well-formed entries are normalized and category-filtered as if  *)
(* the malformed entries were not in the list.                             *)
(***************************************************************************)
Malformed(e) ==
    \/ e.kind # "dict"
    \/ e.Title.t \notin {"absent", "str"} /\ ~IsMagnetUri(e.MagnetUri) /\ ~IsMagnetUri(e.Link)
    \/ e.Category.t = "str" /\ ~IsDigits(e.Category.s)

WellFormed(e) == ~Malformed(e)

\* The entries without the sequential Id fallback, which counts the malformed ones too.
WithoutIds(seq) == [i \in 1..Len(seq) |-> [seq[i] EXCEPT !.Id = Absent]]

WellFormedAlone == enrich_results(ObjectBody(SelectSeq(served.Results, WellFormed))).data.Results

C4_MalformedEntrySkipped ==
    /\ \A i \in 1..Len(attempts) : attempts[i].err # "quote_from_bytes() expected bytes"
    /\ Answered =>
          WithoutIds(SelectSeq(Results, WellFormed))
              = WithoutIds(filter_results(WellFormedAlone, CategoryOf(req)))

(***************************************************************************)
(* C5 as stated: two requests whose query texts normalize to the same      *)
(* string and whose categories are the same (empty and "all" counting as   *)
(* the same) use one cache entry: when the first succeeded and the second  *)
(* arrives within the 300-second TTL, the second gets the first's result   *)
(* and no backend endpoint is contacted.                                   *)
(***************************************************************************)
CategoryKey(r) == IF CategoryOf(r) = "" THEN "all" ELSE CategoryOf(r)

SameSearch(a, b) ==
    /\ a.q.has /\ b.q.has
    /\ Normalize(a.q.s) = Normalize(b.q.s)
    /\ CategoryKey(a) = CategoryKey(b)

C5_SameNormalizedQueryHits ==
    \A i, j \in 1..Len(log) :
        /\ i < j
        /\ SameSearch(log[i].req, log[j].req)
        /\ log[i].response.status = 200
        /\ log[j].at - log[i].at < CACHE_TIMEOUT
        => log[j].response = log[i].response /\ log[j].contacted = 0

(***************************************************************************)
(* C6 as stated: the endpoints are tried in a fixed order; the reply is    *)
(* the result of the first endpoint that returns status 200 with parseable *)
(* JSON, and no endpoint is contacted after it; the reply is 502 if and    *)
(* only if every attempted endpoint failed, with the error recorded for    *)
(* the last attempt.                                                       *)
(***************************************************************************)
FixedOrder ==
    << "https://jk.example/api/v2.0/indexers/all/results",
       "https://jk.example/jackett/api/v2.0/indexers/all/results",
       "http://jackett:9117/api/v2.0/indexers/all/results",
       "http://jackett:9117/jackett/api/v2.0/indexers/all/results" >>

TriedInOrder ==
    /\ Len(attempts) <= Len(FixedOrder)
    /\ \A i \in 1..Len(attempts) : attempts[i].url = FixedOrder[i]

C6_AsStated ==
    /\ TriedInOrder
    /\ \A i \in 1..Len(attempts) :
          attempts[i].kind = "json" => i = Len(attempts) /\ (pc = "done" => response.status = 200)
    /\ pc = "done" /\ attempts # <<>> =>
          /\ response.status = 502 <=> \A i \in 1..Len(attempts) : attempts[i].kind # "json"
          /\ response.status = 502 => response.error = attempts[Len(attempts)].err

(***************************************************************************)
(* C6 as amended: the endpoints are tried in a fixed order; the reply is   *)
(* the result of the first endpoint that returns status 200 with JSON that *)
(* enrich_results processes without raising, and no endpoint is contacted  *)
(* after it; an endpoint whose answer raises in processing counts as       *)
(* failed; the reply is 502 if and only if every attempted endpoint        *)
(* failed, with the error recorded for the last attempt.                   *)
(***************************************************************************)
C6_EndpointFallback ==
    /\ TriedInOrder
    /\ \A i \in 1..Len(attempts) :
          attempts[i].ok =>
              /\ i = Len(attempts)
              /\ Answered
              /\ Results = filter_results(EnrichedServed, CategoryOf(req))
    /\ pc = "done" /\ attempts # <<>> =>
          /\ response.status \in {200, 502}
          /\ response.status = 502 <=> \A i \in 1..Len(attempts) : ~attempts[i].ok
          /\ response.status = 502 =>
                /\ Len(attempts) = Len(FixedOrder)
                /\ response.error = attempts[Len(attempts)].err

\* Two endpoints failed, the third answered, the fourth was never contacted.
C6_Witness ==
    /\ Answered
    /\ Len(attempts) = 3
    /\ attempts[1].kind = "notjson"
    /\ attempts[2].kind = "json" /\ ~attempts[2].ok
    /\ attempts[3].ok
    /\ Results # <<>>

(***************************************************************************)
(* C9 as stated: with the normalized query split into tokens of length at  *)
(* least 2, every item of Results has a normalized title containing at     *)
(* least the required number of tokens, 1 for at most 2 tokens and         *)
(* max(1, tokens \div 3) otherwise; an empty token set excludes nothing.   *)
(***************************************************************************)
Tokens(text) == SelectSeq(Split(ToLower(text), " "), LAMBDA w : Len(w) >= 2)

Required(n) == IF n <= 2 THEN 1 ELSE IF n \div 3 > 1 THEN n \div 3 ELSE 1

MatchCount(title, tokens) ==
    Cardinality({i \in 1..Len(tokens) : Contains(ToLower(Normalize(CodePoints(title))), tokens[i])})

C9_RelevanceFilter ==
    Answered /\ Tokens(query) # <<>> =>
        \A i \in 1..Len(Results) :
            Results[i].kind = "dict" /\ Results[i].Title.t = "str" =>
                MatchCount(Results[i].Title.s, Tokens(query)) >= Required(Len(Tokens(query)))

(***************************************************************************)
(* C10: query normalization is idempotent: normalizing the normalized text *)
(* yields the same text, Normalize(Normalize(x)) = Normalize(x).           *)
(***************************************************************************)
C10_NormalizeIdempotent == Len(nOut) = 2 => nOut[2] = nOut[1]

\* A text with punctuation and a non-ASCII letter, normalized twice.
C10_Witness == nRaw = <<"a", "!", "U+00E9">> /\ nOut = <<"ae", "ae">>

(***************************************************************************)
(* C11  Per-IP cooldown: under every interleaving of download requests,    *)
(*      requests of one IP served by two threads at once included, any two *)
(*      requests that rate_limit admits to add_download for the same IP    *)
(*      have times at least ADD_COOLDOWN seconds apart, and a request      *)
(*      answered 429 leaves the time stored for its IP as it was.          *)
(***************************************************************************)
Apart(a, b) == IF a >= b THEN a - b ELSE b - a

C11_PerIpCooldown ==
    /\ \A i, j \in 1..Len(admitted) :
          (i < j /\ admitted[i].ip = admitted[j].ip)
             => Apart(admitted[i].now, admitted[j].now) >= ADD_COOLDOWN
    /\ \A r \in rejected : r.after = r.before

====
